---- MODULE Spec2Model ----
(***************************************************************************)
(* A model of the SemCor corpus reader (nltk/corpus/reader/semcor.py):     *)
(* the leaf collector _all_xmlwords_in, the item builder _word, the eager  *)
(* materializer _words, the lazy view SemcorWordView and the selector      *)
(* _items with the public operations built on it.                          *)
(*                                                                         *)
(* Python values are records tagged by the field k, so that a string, a    *)
(* list, a tuple, a Tree and None are never equal to one another.  A       *)
(* string is the sequence of its characters.  An XML document is the       *)
(* sequence of its elements in document (pre-order) order, each with its   *)
(* depth; element n's children are the elements whose parent is n.         *)
(***************************************************************************)
EXTENDS Naturals, Integers, Sequences, FiniteSets, TLC

VARIABLES
    doc,     \* the document of the corpus file: its elements in pre-order
    lazy,    \* SemcorCorpusReader._lazy
    res,     \* the last call of a function or method: what, on what, outcome
    prev,    \* the call before it
    view,    \* the SemcorWordView under iteration, or NoView
    first    \* what the view's first iteration gave at each position

vars == <<doc, lazy, res, prev, view, first>>

----------------------------------------------------------------------------
(* Python values *)

None == [k |-> "None"]
Str(cs) == [k |-> "str", v |-> cs]
Bool(b) == [k |-> "bool", v |-> <<b>>]
List(xs) == [k |-> "list", v |-> xs]
Tuple(xs) == [k |-> "tuple", v |-> xs]
Tree(node, children) == [k |-> "Tree", label |-> node, v |-> children]

(* The outcome of a call: a returned value or a raised exception. *)
Ok(x) == [k |-> "ok", val |-> x]
Raise(e) == [k |-> "raise", exc |-> e]

----------------------------------------------------------------------------
(* str methods and formatting *)

Whitespace == {" "}
Digits == <<"0", "1", "2", "3", "4", "5", "6", "7", "8", "9">>

RECURSIVE lstrip(_)
lstrip(cs) ==
    IF cs # <<>> /\ Head(cs) \in Whitespace THEN lstrip(Tail(cs)) ELSE cs

RECURSIVE rstrip(_)
rstrip(cs) ==
    IF cs # <<>> /\ cs[Len(cs)] \in Whitespace
    THEN rstrip(SubSeq(cs, 1, Len(cs) - 1))
    ELSE cs

(* str.strip() *)
strip(cs) == rstrip(lstrip(cs))

(* The place of the first sep in cs, or 0. *)
find(cs, sep) ==
    IF \E i \in 1..Len(cs) : cs[i] = sep
    THEN CHOOSE i \in 1..Len(cs) : cs[i] = sep /\ \A h \in 1..(i - 1) : cs[h] # sep
    ELSE 0

(* str.split(sep): always at least one piece; pieces may be empty. *)
RECURSIVE split(_, _)
RECURSIVE SplitAt(_, _, _)
SplitAt(cs, sep, i) ==
    IF i = 0 THEN <<Str(cs)>>
    ELSE <<Str(SubSeq(cs, 1, i - 1))>> \o split(SubSeq(cs, i + 1, Len(cs)), sep)

split(cs, sep) == SplitAt(cs, sep, find(cs, sep))

IsDigit(c) == \E d \in 0..9 : Digits[d + 1] = c
DigitValue(c) == CHOOSE d \in 0..9 : Digits[d + 1] = c

RECURSIVE DigitsValue(_)
DigitsValue(cs) ==
    IF cs = <<>> THEN 0
    ELSE 10 * DigitsValue(SubSeq(cs, 1, Len(cs) - 1)) + DigitValue(cs[Len(cs)])

(* The integer written by the digits ds under the sign, or ValueError. *)
IntOfDigits(sign, ds) ==
    IF ds # <<>> /\ \A i \in 1..Len(ds) : IsDigit(ds[i])
    THEN Ok(IF sign = "-" THEN 0 - DigitsValue(ds) ELSE DigitsValue(ds))
    ELSE Raise("ValueError")

IntOfStripped(t) ==
    IF t # <<>> /\ Head(t) \in {"+", "-"}
    THEN IntOfDigits(Head(t), Tail(t))
    ELSE IntOfDigits("+", t)

(* int(s): surrounding whitespace and one sign are allowed, then one or    *)
(* more decimal digits; anything else raises ValueError.                   *)
int(cs) == IntOfStripped(strip(cs))

RECURSIVE str(_)
str(n) ==
    IF n < 10 THEN <<Digits[n + 1]>> ELSE str(n \div 10) \o <<Digits[(n % 10) + 1]>>

(* '%02d' % n: the sign counts towards the width of 2. *)
Format02d(n) ==
    IF n < 0 THEN <<"-">> \o str(0 - n)
    ELSE IF n < 10 THEN <<"0">> \o str(n)
    ELSE str(n)

----------------------------------------------------------------------------
(* XML elements *)

LeafTags == {"wf", "punc"}

(* Element.get(key) of an attribute the element lacks is None. *)
Element(tag, depth, text, lemma, wnsn, rdf, pos, snum) ==
    [tag |-> tag, depth |-> depth, text |-> text, lemma |-> lemma,
     wnsn |-> wnsn, rdf |-> rdf, pos |-> pos, snum |-> snum]

----------------------------------------------------------------------------
(* SemcorCorpusReader._word *)

(* The local variable sense before line 183 or 185 has assigned it. *)
Unbound == [k |-> "unbound"]

(* Lines 160-163: the text, "" when there is none, stripped on request. *)
Tkn(xmlword, strip_space) ==
    IF xmlword.text = None \/ xmlword.text = Str(<<>>) THEN Str(<<>>)
    ELSE IF strip_space THEN Str(strip(xmlword.text.v))
    ELSE xmlword.text

(* SenseKey with '%s.%d' for '%s.%02d': the sense number is not padded. *)
SenseKeyUnpadded(lemma, sensenum, n) ==
    IF n.k = "ok"
    THEN Str(lemma.v \o <<".">> \o str(n.val))
    ELSE Str(lemma.v \o <<".">> \o sensenum.v)

(* Lines 182-185: n is what int(sensenum) gave. *)
SenseKey(lemma, sensenum, n) ==
    IF n.k = "ok"
    THEN Str(lemma.v \o <<".">> \o Format02d(n.val))
    ELSE Str(lemma.v \o <<".">> \o sensenum.v)

(* Lines 181-185: sense is assigned only when wnsn is present. *)
Sense(lemma, sensenum) ==
    IF sensenum # None THEN SenseKey(lemma, sensenum, int(sensenum.v)) ELSE Unbound

(* Chunk with `return bottom` for `return bottom[0]` at line 194. *)
ChunkReturnsBottom(xmlword, pos_tag, sem_tag, ww, sense) ==
    LET bottom == IF pos_tag THEN <<Tree(xmlword.pos, ww)>> ELSE ww
    IN  IF sem_tag /\ xmlword.rdf
        THEN IF sense = Unbound THEN Raise("UnboundLocalError")
             ELSE Ok(Tree(sense, <<Tree(Str(<<"N", "E">>), bottom)>>))
        ELSE IF sem_tag /\ xmlword.wnsn # None
        THEN Ok(Tree(sense, bottom))
        ELSE Ok(List(bottom))

(* Lines 187-196. *)
Chunk(xmlword, pos_tag, sem_tag, ww, sense) ==
    LET sensenum == xmlword.wnsn
        isOOVEntity == xmlword.rdf
        pos == xmlword.pos
        bottom == IF pos_tag THEN <<Tree(pos, ww)>> ELSE ww
    IN  IF sem_tag /\ isOOVEntity
        THEN IF sense = Unbound THEN Raise("UnboundLocalError")
             ELSE Ok(Tree(sense, <<Tree(Str(<<"N", "E">>), bottom)>>))
        ELSE IF sem_tag /\ sensenum # None
        THEN Ok(Tree(sense, bottom))
        ELSE IF pos_tag
        THEN Ok(bottom[1])
        ELSE Ok(List(bottom))

(* Lines 165-196: tkn is the text of lines 160-163. *)
Item(xmlword, unit, pos_tag, sem_tag, tkn) ==
    LET lemma == IF xmlword.lemma = None THEN tkn ELSE xmlword.lemma
        sensenum == xmlword.wnsn
        isOOVEntity == xmlword.rdf
        pos == xmlword.pos
    IN  IF unit = "token"
        THEN IF ~pos_tag /\ ~sem_tag
             THEN Ok(tkn)
             ELSE Ok(Tuple(<<tkn>>
                           \o (IF pos_tag THEN <<pos>> ELSE <<>>)
                           \o (IF sem_tag
                               THEN <<lemma, sensenum, Bool(isOOVEntity)>>
                               ELSE <<>>)))
        ELSE IF unit = "word"
        THEN Ok(List(split(tkn.v, "_")))
        ELSE Chunk(xmlword, pos_tag, sem_tag, split(tkn.v, "_"), Sense(lemma, sensenum))

_word(xmlword, unit, pos_tag, sem_tag, strip_space) ==
    Item(xmlword, unit, pos_tag, sem_tag, Tkn(xmlword, strip_space))

----------------------------------------------------------------------------
(* The element tree: iteration over an element, findall *)

(* The last element of the subtree rooted at n. *)
SubtreeEnd(d, n) ==
    IF \E m \in (n + 1)..Len(d) : d[m].depth <= d[n].depth
    THEN (CHOOSE m \in (n + 1)..Len(d) :
              /\ d[m].depth <= d[n].depth
              /\ \A h \in (n + 1)..(m - 1) : d[h].depth > d[n].depth) - 1
    ELSE Len(d)

(* `for child in elt`: the direct children of n, in document order. *)
RECURSIVE Siblings(_, _, _)
Siblings(d, c, depth) ==
    IF c <= Len(d) /\ d[c].depth = depth
    THEN <<c>> \o Siblings(d, SubtreeEnd(d, c) + 1, depth)
    ELSE <<>>

Children(d, n) == Siblings(d, n + 1, d[n].depth + 1)

(* The elements of the set S of element numbers, in document order. *)
RECURSIVE InOrder(_)
InOrder(S) ==
    IF S = {} THEN <<>>
    ELSE LET m == CHOOSE x \in S : \A y \in S : x <= y
         IN  <<m>> \o InOrder(S \ {m})

(* xmldoc.findall('.//s'): every descendant of the root with tag s. *)
findall_s(d) == InOrder({n \in 2..Len(d) : d[n].tag = "s"})

----------------------------------------------------------------------------
(* _all_xmlwords_in *)

RECURSIVE _all_xmlwords_in(_, _, _)
RECURSIVE XmlwordsLoop(_, _, _)

(* The body of `for child in elt` over the children still to visit. *)
(* XmlwordsLoop with `if` for `else`: a leaf is collected and then searched too. *)
XmlwordsLoopIntoLeaves(d, kids, result) ==
    IF kids = <<>> THEN result
    ELSE XmlwordsLoop(d, Tail(kids),
             _all_xmlwords_in(d, Head(kids),
                 IF d[Head(kids)].tag \in LeafTags
                 THEN List(Append(result.v, Head(kids)))
                 ELSE result))

XmlwordsLoop(d, kids, result) ==
    IF kids = <<>> THEN result
    ELSE XmlwordsLoop(d, Tail(kids),
             IF d[Head(kids)].tag \in LeafTags
             THEN List(Append(result.v, Head(kids)))
             ELSE _all_xmlwords_in(d, Head(kids), result))

(* result is None (the default) or the list under construction. *)
_all_xmlwords_in(d, elt, result) ==
    XmlwordsLoop(d, Children(d, elt), IF result = None THEN List(<<>>) ELSE result)

----------------------------------------------------------------------------
(* SemcorSentence and SemcorCorpusReader._words *)

Units == {"token", "word", "chunk"}

SemcorSentence(num, items) == [k |-> "SemcorSentence", num |-> num, v |-> items]

RECURSIVE WordsSent(_, _, _, _, _, _, _)
RECURSIVE WordsSentItem(_, _, _, _, _, _, _, _)

(* Lines 145-148: itm is what _word gave for the first of xmlwords. *)
WordsSentItem(d, xmlwords, unit, pos_tag, sem_tag, strip_space, sent, itm) ==
    IF itm.k = "raise" THEN itm
    ELSE WordsSent(d, Tail(xmlwords), unit, pos_tag, sem_tag, strip_space,
             IF unit = "word" THEN sent \o itm.val.v ELSE Append(sent, itm.val))

(* Lines 142-148: the items of one sentence, over the leaves still to do. *)
WordsSent(d, xmlwords, unit, pos_tag, sem_tag, strip_space, sent) ==
    IF xmlwords = <<>> THEN Ok(sent)
    ELSE WordsSentItem(d, xmlwords, unit, pos_tag, sem_tag, strip_space, sent,
             _word(d[Head(xmlwords)], unit, pos_tag, sem_tag, strip_space))

RECURSIVE WordsLoop(_, _, _, _, _, _, _, _)
RECURSIVE WordsLoopSent(_, _, _, _, _, _, _, _, _)

(* Lines 150-153: sent is the list built for the first of xmlsents. *)
WordsLoopSent(d, xmlsents, unit, bracket_sent, pos_tag, sem_tag, strip_space, result, sent) ==
    IF sent.k = "raise" THEN sent
    ELSE IF ~bracket_sent
    THEN WordsLoop(d, Tail(xmlsents), unit, bracket_sent, pos_tag, sem_tag,
             strip_space, result \o sent.val)
    ELSE IF d[Head(xmlsents)].snum = None
    THEN Raise("KeyError")
    ELSE WordsLoop(d, Tail(xmlsents), unit, bracket_sent, pos_tag, sem_tag,
             strip_space,
             Append(result, SemcorSentence(d[Head(xmlsents)].snum, sent.val)))

(* Lines 141-153: the loop over the sentences still to do. *)
WordsLoop(d, xmlsents, unit, bracket_sent, pos_tag, sem_tag, strip_space, result) ==
    IF xmlsents = <<>> THEN Ok(result)
    ELSE WordsLoopSent(d, xmlsents, unit, bracket_sent, pos_tag, sem_tag,
             strip_space, result,
             WordsSent(d, _all_xmlwords_in(d, Head(xmlsents), None).v,
                       unit, pos_tag, sem_tag, strip_space, <<>>))

(* Lines 155-156: the assertion on the result, and the return. *)
WordsResult(result) ==
    IF result.k = "raise" THEN result
    ELSE IF \E i \in 1..Len(result.val) : result.val[i] = None
    THEN Raise("AssertionError")
    ELSE Ok(List(result.val))

_words(d, unit, bracket_sent, pos_tag, sem_tag, strip_space) ==
    IF unit \notin Units THEN Raise("AssertionError")
    ELSE WordsResult(WordsLoop(d, findall_s(d), unit, bracket_sent, pos_tag,
                               sem_tag, strip_space, <<>>))

----------------------------------------------------------------------------
(* SemcorWordView *)

(* __init__: the view's fields and the tagspec handed to XMLCorpusView. *)
SemcorWordView(unit, bracket_sent, pos_tag, sem_tag, strip_space) ==
    [tagspec |-> IF bracket_sent THEN ".*/s" ELSE ".*/s/(punc|wf)",
     _unit |-> unit, _sent |-> bracket_sent, _pos_tag |-> pos_tag,
     _sem_tag |-> sem_tag, _strip_space |-> strip_space]

handle_word(d, self, elt) ==
    _word(d[elt], self._unit, self._pos_tag, self._sem_tag, self._strip_space)

RECURSIVE SentLoop(_, _, _, _)
RECURSIVE SentLoopItem(_, _, _, _, _)

(* Lines 249-252: itm is what handle_word gave for the first of kids. *)
SentLoopItem(d, self, kids, sent, itm) ==
    IF itm.k = "raise" THEN itm
    ELSE SentLoop(d, self, Tail(kids),
             IF self._unit = "word" THEN sent \o itm.val.v ELSE Append(sent, itm.val))

(* Lines 246-254: the loop of handle_sent over the children still to do. *)
SentLoop(d, self, kids, sent) ==
    IF kids = <<>> THEN Ok(sent)
    ELSE IF d[Head(kids)].tag \notin LeafTags THEN Raise("ValueError")
    ELSE SentLoopItem(d, self, kids, sent, handle_word(d, self, Head(kids)))

(* Line 255: sent is what the loop gave. *)
SentResult(e, sent) ==
    IF sent.k = "raise" THEN sent
    ELSE IF e.snum = None THEN Raise("KeyError")
    ELSE Ok(SemcorSentence(e.snum, sent.val))

handle_sent(d, self, elt) ==
    SentResult(d[elt], SentLoop(d, self, Children(d, elt), <<>>))

(* The view after the call, and what the call returned or raised. *)
(* handle_elt that records the dispatch in the view: self._unit is overwritten. *)
handle_eltSetsUnit(d, self, elt) ==
    [self |-> [self EXCEPT !._unit = IF self._sent THEN "sent" ELSE "word"],
     ret |-> IF self._sent THEN handle_sent(d, self, elt) ELSE handle_word(d, self, elt)]

handle_elt(d, self, elt) ==
    [self |-> self,
     ret |-> IF self._sent THEN handle_sent(d, self, elt) ELSE handle_word(d, self, elt)]

(* XMLCorpusView's stream: the elements whose tag path matches the tagspec, *)
(* in document order.  The path of the root has no '/', so neither the     *)
(* root nor a child of the root matched as s's child is ever selected.     *)
Parent(d, n) ==
    IF n = 1 THEN 0
    ELSE CHOOSE m \in 1..(n - 1) :
             /\ d[m].depth = d[n].depth - 1
             /\ \A h \in (m + 1)..(n - 1) : d[h].depth >= d[n].depth

Matched(d, tagspec) ==
    IF tagspec = ".*/s"
    THEN InOrder({n \in 2..Len(d) : d[n].tag = "s"})
    ELSE InOrder({n \in 2..Len(d) :
                     /\ d[n].tag \in LeafTags
                     /\ Parent(d, n) > 1
                     /\ d[Parent(d, n)].tag = "s"})

RECURSIVE PullAll(_, _, _, _)
RECURSIVE PullOne(_, _, _, _)

(* h is what handle_elt gave for the first of elts. *)
PullOne(d, elts, out, h) ==
    IF h.ret.k = "raise" THEN h.ret
    ELSE PullAll(d, h.self, Tail(elts), Append(out, h.ret.val))

(* The view pulled to exhaustion: its items, or the first error. *)
PullAll(d, self, elts, out) ==
    IF elts = <<>> THEN Ok(List(out))
    ELSE PullOne(d, elts, out, handle_elt(d, self, Head(elts)))

list_of_view(d, self) == PullAll(d, self, Matched(d, self.tagspec), <<>>)

----------------------------------------------------------------------------
(* SemcorCorpusReader._items and the public operations *)

(* Iterating over a value: a string gives its characters. *)
iter(x) ==
    IF x.k = "str" THEN [i \in 1..Len(x.v) |-> Str(<<x.v[i]>>)]
    ELSE x.v

RECURSIVE Flatten(_)
Flatten(xs) == IF xs = <<>> THEN <<>> ELSE iter(Head(xs)) \o Flatten(Tail(xs))

(* LazyConcatenation(producer): the producer's items, each iterated over. *)
LazyConcatenation(producer) ==
    IF producer.k = "raise" THEN producer
    ELSE IF \E i \in 1..Len(producer.val.v) :
                producer.val.v[i].k \in {"None", "bool"}
    THEN Raise("TypeError")
    ELSE Ok(List(Flatten(producer.val.v)))

(* concat(docs): the per-file sequences one after the other. *)
RECURSIVE concat(_)
concat(docs) ==
    IF docs = <<>> THEN Ok(List(<<>>))
    ELSE LET rest == concat(Tail(docs))
         IN  IF Head(docs).k = "raise" THEN Head(docs)
             ELSE IF rest.k = "raise" THEN rest
             ELSE Ok(List(Head(docs).val.v \o rest.val.v))

(* Lines 113-118: the producer as it is, or under a LazyConcatenation. *)
Selected(unit, bracket_sent, producer) ==
    IF unit = "word" /\ ~bracket_sent THEN LazyConcatenation(producer) ELSE producer

_items(files, lz, fileids, unit, bracket_sent, pos_tag, sem_tag, strip_space) ==
    LET producer(d) ==
            IF lz
            THEN list_of_view(d, SemcorWordView(unit, bracket_sent, pos_tag,
                                                sem_tag, strip_space))
            ELSE _words(d, unit, bracket_sent, pos_tag, sem_tag, strip_space)
    IN  concat([i \in 1..Len(fileids) |->
                   Selected(unit, bracket_sent, producer(files[fileids[i]]))])

words(files, lz, fileids, strip_space) ==
    _items(files, lz, fileids, "word", FALSE, FALSE, FALSE, strip_space)

chunks(files, lz, fileids, strip_space) ==
    _items(files, lz, fileids, "chunk", FALSE, FALSE, FALSE, strip_space)

tagged_chunks(files, lz, fileids, tag, strip_space) ==
    _items(files, lz, fileids, "chunk", FALSE, tag # "sem", tag # "pos", strip_space)

sents(files, lz, fileids, strip_space) ==
    _items(files, lz, fileids, "word", TRUE, FALSE, FALSE, strip_space)

chunk_sents(files, lz, fileids, strip_space) ==
    _items(files, lz, fileids, "chunk", TRUE, FALSE, FALSE, strip_space)

tagged_sents(files, lz, fileids, tag, strip_space) ==
    _items(files, lz, fileids, "chunk", TRUE, tag # "sem", tag # "pos", strip_space)

----------------------------------------------------------------------------
(* The inputs: documents, leaves, parameters *)

MaxNodes == 3      \* elements below the root of a document
MaxSenseLen == 3   \* characters of a wnsn attribute

New_York == <<"N", "e", "w", "_", "Y", "o", "r", "k">>

Root == Element("contextfile", 0, None, None, None, FALSE, None, None)

(* The element of each kind, as the n-th element of its document: a        *)
(* sentence (snum is its number in the file), a paragraph or other         *)
(* grouping element, a named entity outside WordNet without a sense        *)
(* number, a punctuation mark.                                             *)
Kinds == {"s", "p", "ne", "punc"}

NodeOfKind(kind, depth, n) ==
    CASE kind = "s" ->
             Element("s", depth, None, None, None, FALSE, None, Str(<<Digits[n + 1]>>))
      [] kind = "p" ->
             Element("p", depth, None, None, None, FALSE, None, None)
      [] kind = "ne" ->
             Element("wf", depth, Str(New_York), None, None, TRUE,
                     Str(<<"N", "N", "P">>), None)
      [] kind = "punc" ->
             Element("punc", depth, Str(<<".">>), None, None, FALSE, None, None)

(* Every document of n elements below the root: each element goes under    *)
(* the last one or under one of its ancestors.                             *)
RECURSIVE DocsOfSize(_)
DocsOfSize(n) ==
    IF n = 0 THEN {<<Root>>}
    ELSE UNION {UNION {{Append(d, NodeOfKind(kind, depth, Len(d))) : kind \in Kinds} :
                          depth \in 1..(d[Len(d)].depth + 1)} :
                   d \in DocsOfSize(n - 1)}

Docs == UNION {DocsOfSize(n) : n \in 0..MaxNodes}

(* A second file of the corpus. *)
OtherDoc == <<Root, NodeOfKind("s", 1, 1), NodeOfKind("punc", 2, 2)>>
Files(d) == <<d, OtherDoc>>
Fileids == {<<1>>, <<1, 2>>}
Tags == {"pos", "sem", "both"}

(* The strings of at most n characters over the alphabet A. *)
RECURSIVE Strings(_, _)
Strings(A, n) ==
    IF n = 0 THEN {<<>>}
    ELSE LET S == Strings(A, n - 1)
         IN  S \cup {Append(cs, c) : cs \in S, c \in A}

SenseNums == {None} \cup {Str(cs) : cs \in Strings({"0", "1", "2", "7", ";"}, MaxSenseLen)}
Texts == {None, Str(<<" ", "a", "_", "b", " ">>), Str(New_York)}
Lemmas == {None, Str(<<"d", "o", "g">>)}
Poses == {None, Str(<<"N", "N">>)}

Leaves ==
    {Element("wf", 2, text, lemma, wnsn, rdf, pos, None) :
        text \in Texts, lemma \in Lemmas, wnsn \in SenseNums,
        rdf \in BOOLEAN, pos \in Poses}

WordDocs == {<<Root, NodeOfKind("s", 1, 1), leaf>> : leaf \in Leaves}

----------------------------------------------------------------------------
(* State *)

NoCall == [op |-> "none"]
NoView == [status |-> "none"]

Args(unit, bracket_sent, pos_tag, sem_tag, strip_space) ==
    [unit |-> unit, bracket_sent |-> bracket_sent, pos_tag |-> pos_tag,
     sem_tag |-> sem_tag, strip_space |-> strip_space]

Call(op, elt, args, out) == [op |-> op, elt |-> elt, args |-> args, out |-> out]

Idle == res = NoCall /\ view = NoView

----------------------------------------------------------------------------
(* The item builder on its own: one leaf, every parameter combination *)

InitWord ==
    /\ doc \in WordDocs
    /\ lazy = TRUE
    /\ res = NoCall
    /\ prev = NoCall
    /\ view = NoView
    /\ first = <<>>

CallWord ==
    \E unit \in Units, pos_tag \in BOOLEAN, sem_tag \in BOOLEAN, strip_space \in BOOLEAN :
        /\ Idle
        /\ res' = Call("_word", 3, Args(unit, FALSE, pos_tag, sem_tag, strip_space),
                       _word(doc[3], unit, pos_tag, sem_tag, strip_space))
        /\ UNCHANGED <<doc, lazy, prev, view, first>>

NextWord == CallWord

SpecWord == InitWord /\ [][NextWord]_vars

----------------------------------------------------------------------------
(* The leaf collector on its own: any element of any document, twice *)

InitLeaves ==
    /\ doc \in Docs
    /\ lazy = TRUE
    /\ res = NoCall
    /\ prev = NoCall
    /\ view = NoView
    /\ first = <<>>

CallAllXmlwords ==
    \E elt \in 1..Len(doc) :
        /\ prev = NoCall
        /\ res # NoCall => res.elt = elt
        /\ res' = Call("_all_xmlwords_in", elt, None, Ok(_all_xmlwords_in(doc, elt, None)))
        /\ prev' = res
        /\ UNCHANGED <<doc, lazy, view, first>>

NextLeaves == CallAllXmlwords

SpecLeaves == InitLeaves /\ [][NextLeaves]_vars

----------------------------------------------------------------------------
(* The reader: one request on a document, eager, lazy or through _items *)

Init ==
    /\ doc \in Docs
    /\ lazy \in BOOLEAN
    /\ res = NoCall
    /\ prev = NoCall
    /\ view = NoView
    /\ first = <<>>

EagerWords ==
    \E unit \in Units, bracket_sent \in BOOLEAN, pos_tag \in BOOLEAN,
       sem_tag \in BOOLEAN, strip_space \in BOOLEAN :
        /\ Idle
        /\ res' = Call("_words", 1,
                       Args(unit, bracket_sent, pos_tag, sem_tag, strip_space),
                       _words(doc, unit, bracket_sent, pos_tag, sem_tag, strip_space))
        /\ UNCHANGED <<doc, lazy, prev, view, first>>

Request(op, fileids, tag, strip_space, out) ==
    /\ Idle
    /\ res' = Call(op, 1, [fileids |-> fileids, tag |-> tag, strip_space |-> strip_space],
                   out)
    /\ UNCHANGED <<doc, lazy, prev, view, first>>

PublicWords ==
    \E fileids \in Fileids, strip_space \in BOOLEAN :
        Request("words", fileids, "", strip_space,
                words(Files(doc), lazy, fileids, strip_space))

PublicChunks ==
    \E fileids \in Fileids, strip_space \in BOOLEAN :
        Request("chunks", fileids, "", strip_space,
                chunks(Files(doc), lazy, fileids, strip_space))

PublicTaggedChunks ==
    \E fileids \in Fileids, tag \in Tags, strip_space \in BOOLEAN :
        Request("tagged_chunks", fileids, tag, strip_space,
                tagged_chunks(Files(doc), lazy, fileids, tag, strip_space))

PublicSents ==
    \E fileids \in Fileids, strip_space \in BOOLEAN :
        Request("sents", fileids, "", strip_space,
                sents(Files(doc), lazy, fileids, strip_space))

PublicChunkSents ==
    \E fileids \in Fileids, strip_space \in BOOLEAN :
        Request("chunk_sents", fileids, "", strip_space,
                chunk_sents(Files(doc), lazy, fileids, strip_space))

PublicTaggedSents ==
    \E fileids \in Fileids, tag \in Tags, strip_space \in BOOLEAN :
        Request("tagged_sents", fileids, tag, strip_space,
                tagged_sents(Files(doc), lazy, fileids, tag, strip_space))

(* SemcorWordView(fileid, ...): a view on the document, nothing pulled. *)
NewView ==
    \E unit \in Units, bracket_sent \in BOOLEAN, pos_tag \in BOOLEAN,
       sem_tag \in BOOLEAN, strip_space \in BOOLEAN :
        /\ Idle
        /\ view' = [status |-> "iterating",
                    self |-> SemcorWordView(unit, bracket_sent, pos_tag, sem_tag,
                                            strip_space),
                    pos |-> 0, out |-> <<>>, abandoned |-> FALSE]
        /\ UNCHANGED <<doc, lazy, res, prev, first>>

(* One pull: the next matched element goes through handle_elt; the stream  *)
(* ends after the last one, and an error of handle_elt ends the iteration. *)
ViewPull ==
    /\ view.status = "iterating"
    /\ LET elts == Matched(doc, view.self.tagspec)
       IN  IF view.pos = Len(elts)
           THEN /\ view' = [view EXCEPT !.status = "exhausted"]
                /\ UNCHANGED <<res, first>>
           ELSE \E elt \in {elts[view.pos + 1]} :
                \E h \in {handle_elt(doc, view.self, elt)} :
                    /\ view' = [status |-> IF h.ret.k = "raise" THEN "raised"
                                           ELSE "iterating",
                                self |-> h.self,
                                pos |-> view.pos + 1,
                                out |-> IF h.ret.k = "raise" THEN view.out
                                        ELSE Append(view.out, h.ret.val),
                                abandoned |-> view.abandoned]
                    /\ res' = Call("handle_elt", elt, view.self, h.ret)
                    /\ first' = IF view.pos < Len(first) THEN first
                                ELSE Append(first, h.ret)
    /\ UNCHANGED <<doc, lazy, prev>>

(* The caller stops pulling before the stream has ended. *)
ViewAbandon ==
    /\ view.status = "iterating"
    /\ view' = [view EXCEPT !.status = "abandoned", !.abandoned = TRUE]
    /\ UNCHANGED <<doc, lazy, res, prev, first>>

(* Iteration begins again: a fresh cursor on the same view. *)
ViewIter ==
    /\ view.status \in {"abandoned", "exhausted", "raised"}
    /\ view' = [view EXCEPT !.status = "iterating", !.pos = 0, !.out = <<>>]
    /\ res' = NoCall
    /\ UNCHANGED <<doc, lazy, prev, first>>

Next ==
    \/ EagerWords
    \/ PublicWords
    \/ PublicChunks
    \/ PublicTaggedChunks
    \/ PublicSents
    \/ PublicChunkSents
    \/ PublicTaggedSents
    \/ NewView
    \/ ViewPull
    \/ ViewAbandon
    \/ ViewIter

Spec == Init /\ [][Next]_vars

----------------------------------------------------------------------------
(* The lazy view on its own *)

InitView ==
    /\ doc \in Docs
    /\ lazy = TRUE
    /\ res = NoCall
    /\ prev = NoCall
    /\ view = NoView
    /\ first = <<>>

NextView ==
    \/ NewView
    \/ ViewPull
    \/ ViewAbandon
    \/ ViewIter

SpecView == InitView /\ [][NextView]_vars

----------------------------------------------------------------------------
(* Properties of _word (under SpecWord) *)

(* The leaf and the parameters of the call of _word that res holds. *)
Called_word == res.op = "_word"
TheLeaf == doc[res.elt]

(* The surface text as the call saw it: "" for none, stripped on request. *)
SurfaceText ==
    LET t == IF TheLeaf.text = None THEN <<>> ELSE TheLeaf.text.v
    IN  IF res.args.strip_space THEN strip(t) ELSE t

SubWords == split(SurfaceText, "_")

(* The lemma attribute, or the surface text when the leaf has none. *)
TheLemma == IF TheLeaf.lemma # None THEN TheLeaf.lemma.v ELSE SurfaceText

(* A sense number written with decimal digits only. *)
IsNumeral(cs) == cs # <<>> /\ \A i \in 1..Len(cs) : cs[i] \in {Digits[j] : j \in 1..10}

(* A numeral without its leading zeros (its last digit is kept). *)
RECURSIVE Canonical(_)
Canonical(cs) == IF Len(cs) > 1 /\ Head(cs) = "0" THEN Canonical(Tail(cs)) ELSE cs

(* A number written with at least two digits. *)
TwoDigits(cs) == IF Len(Canonical(cs)) < 2 THEN <<"0">> \o Canonical(cs) ELSE Canonical(cs)

ExpectedKey ==
    IF IsNumeral(TheLeaf.wnsn.v)
    THEN Str(TheLemma \o <<".">> \o TwoDigits(TheLeaf.wnsn.v))
    ELSE Str(TheLemma \o <<".">> \o TheLeaf.wnsn.v)

(* bottom: the POS-labelled tree if pos_tag, else the bare sub-words. *)
ExpectedBottom ==
    IF res.args.pos_tag THEN <<Tree(TheLeaf.pos, SubWords)>> ELSE SubWords

\* C3 (as claimed): for unit='chunk' with sem_tag, every leaf with an rdf
\* attribute makes _word return a tree whose only child is an 'NE' tree
\* wrapping bottom, labelled with a sense key; _word never fails on it.
C3_EntityAlwaysWrapped ==
    (Called_word /\ res.args.unit = "chunk" /\ res.args.sem_tag /\ TheLeaf.rdf) =>
        /\ res.out.k = "ok"
        /\ res.out.val.k = "Tree"
        /\ res.out.val.label.k = "str"
        /\ res.out.val.v = <<Tree(Str(<<"N", "E">>), ExpectedBottom)>>

C5_SenseKey ==
    (Called_word /\ res.args.unit = "chunk" /\ res.args.sem_tag /\ TheLeaf.wnsn # None) =>
        /\ res.out.k = "ok"
        /\ res.out.val.k = "Tree"
        /\ res.out.val.label = ExpectedKey
        /\ (TheLeaf.lemma = Str(<<"d", "o", "g">>) /\ TheLeaf.wnsn = Str(<<"7">>)) =>
               res.out.val.label = Str(<<"d", "o", "g", ".", "0", "7">>)
        /\ (TheLeaf.lemma = Str(<<"d", "o", "g">>) /\ TheLeaf.wnsn = Str(<<"2", ";", "1">>)) =>
               res.out.val.label = Str(<<"d", "o", "g", ".", "2", ";", "1">>)

\* C5's case: a leaf without a lemma attribute and with the sense number
\* "2;1", stripped, got its text and the raw sense number as its key.
C5_Witness ==
    /\ Called_word /\ res.args.unit = "chunk" /\ res.args.sem_tag
    /\ res.args.strip_space
    /\ TheLeaf.lemma = None
    /\ TheLeaf.text = Str(<<" ", "a", "_", "b", " ">>)
    /\ TheLeaf.wnsn = Str(<<"2", ";", "1">>)
    /\ res.out.k = "ok"
    /\ res.out.val.label = Str(<<"a", "_", "b", ".", "2", ";", "1">>)

----------------------------------------------------------------------------
(* Properties of _all_xmlwords_in (under SpecLeaves) *)

IsLeaf(d, n) == d[n].tag \in LeafTags

(* a is a proper ancestor of m: m comes after a and nothing from a to m is *)
(* as shallow as a.                                                        *)
IsAncestor(d, a, m) == a < m /\ \A h \in (a + 1)..m : d[h].depth > d[a].depth

(* The leaves below elt with no other leaf between elt and them. *)
ReachableLeaves(d, elt) ==
    {m \in 1..Len(d) :
        /\ IsAncestor(d, elt, m)
        /\ IsLeaf(d, m)
        /\ \A a \in (elt + 1)..(m - 1) : IsAncestor(d, a, m) => ~IsLeaf(d, a)}

DirectChildren(d, elt) ==
    {m \in 1..Len(d) : IsAncestor(d, elt, m) /\ d[m].depth = d[elt].depth + 1}

\* C9: _all_xmlwords_in(elt) returns exactly the wf and punc elements that
\* can be reached from elt without passing through another wf or punc, each
\* once, in document order: none for an element without such descendants,
\* the direct children for an element whose children are all leaves; and a
\* second call on the same element returns the same list.
C9_ReachableLeavesInOrder ==
    res.op = "_all_xmlwords_in" =>
        /\ res.out = Ok(List(InOrder(ReachableLeaves(doc, res.elt))))
        /\ (\A m \in DirectChildren(doc, res.elt) : IsLeaf(doc, m)) =>
               res.out.val.v = InOrder(DirectChildren(doc, res.elt))
        /\ prev # NoCall => (prev.elt = res.elt /\ prev.out = res.out)

\* C9's case: called twice on an element that has a leaf below a non-leaf
\* child, which was collected, and a leaf below that leaf, which was not.
C9_Witness ==
    /\ res.op = "_all_xmlwords_in" /\ prev # NoCall
    /\ \E i \in 1..Len(res.out.val.v) :
           /\ doc[res.out.val.v[i]].depth >= doc[res.elt].depth + 2
           /\ \E m \in 1..Len(doc) :
                  IsAncestor(doc, res.out.val.v[i], m) /\ IsLeaf(doc, m)

----------------------------------------------------------------------------
(* What leaves are expected to contribute *)

(* The items one leaf contributes: its sub-words for unit = 'word', else *)
(* the one item built from it; w is what _word gave for the leaf.        *)
ContributionOf(unit, w) == IF unit = "word" THEN w.val.v ELSE <<w.val>>

RECURSIVE Contributions(_, _, _, _, _, _)
Contributions(d, leaves, unit, pos_tag, sem_tag, strip_space) ==
    IF leaves = <<>> THEN <<>>
    ELSE ContributionOf(unit, _word(d[Head(leaves)], unit, pos_tag, sem_tag, strip_space))
         \o Contributions(d, Tail(leaves), unit, pos_tag, sem_tag, strip_space)

(* The leaves some sentence reaches without passing through another leaf. *)
LeavesInSentences(d) ==
    {m \in 1..Len(d) : \E a \in 2..Len(d) : d[a].tag = "s" /\ m \in ReachableLeaves(d, a)}

(* A document of top-level sentences with leaves as their only children. *)
FlatDoc(d) ==
    \A m \in 2..Len(d) :
        \/ d[m].tag = "s" /\ d[m].depth = 1
        \/ IsLeaf(d, m) /\ d[m].depth = 2 /\ \E a \in 2..(m - 1) : d[a].tag = "s"

----------------------------------------------------------------------------
(* Properties of the lazy view (under SpecView) *)

(* What a complete first pass over the view gave: its items, or its error. *)
ViewDone == view.status \in {"exhausted", "raised"}
LazyOutcome == IF view.status = "raised" THEN res.out ELSE Ok(List(view.out))

EagerOutcome ==
    _words(doc, view.self._unit, view.self._sent, view.self._pos_tag,
           view.self._sem_tag, view.self._strip_space)

\* C1 (as claimed): for every document and every combination of unit,
\* bracket_sent, pos_tag, sem_tag and strip_space, the fully pulled
\* SemcorWordView and _words give the same outcome: the same items in the
\* same order, or the same error.
C1_LazyEqualsEager == ViewDone => LazyOutcome = EagerOutcome

\* C6 (as claimed): handle_sent on a sentence with a direct child that is
\* neither wf nor punc raises ValueError and yields no sentence; on a
\* sentence whose direct children are all leaves it returns a SemcorSentence
\* with the snum attribute verbatim and the children's items in order.
C6_SentenceOrValueError ==
    (res.op = "handle_elt" /\ res.args._sent) =>
        IF \E m \in DirectChildren(doc, res.elt) : ~IsLeaf(doc, m)
        THEN res.out = Raise("ValueError")
        ELSE /\ res.out.k = "ok"
             /\ res.out.val.k = "SemcorSentence"
             /\ res.out.val.num = doc[res.elt].snum
             /\ res.out.val.v =
                    Contributions(doc, InOrder(DirectChildren(doc, res.elt)),
                                  res.args._unit, res.args._pos_tag,
                                  res.args._sem_tag, res.args._strip_space)

(* What one step may do to a view. *)
C7_Step ==
    /\ doc' = doc
    /\ (view # NoView /\ view' # NoView) => view'.self = view.self
    /\ view' # NoView =>
           /\ \A i \in 1..Len(view'.out) : first'[i] = Ok(view'.out[i])
           /\ view'.status = "raised" =>
                  (res'.out.k = "raise" /\ first'[view'.pos] = res'.out)
           /\ view'.status = "exhausted" => Len(view'.out) = Len(first')
           /\ view'.status = "abandoned" => (view.status = "iterating" /\ res' = res)
    /\ view.status = "abandoned" =>
           (view'.status = "iterating" /\ view'.pos = 0 /\ view'.out = <<>>)

----------------------------------------------------------------------------
(* Properties of the reader's operations (under Spec) *)

(* The files a request named, in the order it named them. *)
RequestedDocs == [i \in 1..Len(res.args.fileids) |-> Files(doc)[res.args.fileids[i]]]

RECURSIVE WordsOfDocs(_, _)
WordsOfDocs(docs, strip_space) ==
    IF docs = <<>> THEN <<>>
    ELSE Contributions(Head(docs), InOrder({m \in 1..Len(Head(docs)) : IsLeaf(Head(docs), m)}),
                       "word", FALSE, FALSE, strip_space)
         \o WordsOfDocs(Tail(docs), strip_space)

\* C2 (as claimed): words() returns, in lazy and in eager mode alike, the
\* flat sequence of the sub-words of every leaf, in document order and file
\* after file; stated here for files of top-level sentences whose only
\* children are leaves.
C2_WordsAreSubWords ==
    (res.op = "words" /\ \A i \in 1..Len(RequestedDocs) : FlatDoc(RequestedDocs[i])) =>
        res.out = Ok(List(WordsOfDocs(RequestedDocs, res.args.strip_space)))

(* The chunks of a result, taken out of their sentences where bracketed. *)
ChunksOf(op, out) == IF op = "tagged_sents" THEN Flatten(out.val.v) ELSE out.val.v

NoSenseNoEntity(d) == \A m \in 1..Len(d) : IsLeaf(d, m) => (d[m].wnsn = None /\ ~d[m].rdf)

\* C8 (as claimed): tagged_chunks and tagged_sents produce chunks,
\* unbracketed and bracketed, with the POS layer for tag 'pos' and 'both'
\* and the semantic layer for tag 'sem' and 'both'; and with tag 'sem' a
\* chunk without a sense number that is no entity is a tree whose semantic
\* tag is None.
C8_TagSelector ==
    res.op \in {"tagged_chunks", "tagged_sents"} =>
        /\ res.out = _items(Files(doc), lazy, res.args.fileids, "chunk",
                            res.op = "tagged_sents",
                            res.args.tag \in {"pos", "both"},
                            res.args.tag \in {"sem", "both"},
                            res.args.strip_space)
        /\ (/\ res.args.tag = "sem"
            /\ res.out.k = "ok"
            /\ \A i \in 1..Len(RequestedDocs) : NoSenseNoEntity(RequestedDocs[i])) =>
               \A i \in 1..Len(ChunksOf(res.op, res.out)) :
                   /\ ChunksOf(res.op, res.out)[i].k = "Tree"
                   /\ ChunksOf(res.op, res.out)[i].label = None

(* The items of an eager result, taken out of their sentences if bracketed. *)
ItemsOf(args, out) == IF args.bracket_sent THEN Flatten(out.val.v) ELSE out.val.v

\* C10 (as claimed): _words never fails its final assertion, its result holds
\* no None, and every leaf inside a sentence contributes exactly once, in
\* document order: one item for unit 'chunk' or 'token', one group of its
\* sub-words for unit 'word'; whatever the nesting of the sentences.
C10_EachLeafOnce ==
    res.op = "_words" =>
        /\ res.out # Raise("AssertionError")
        /\ res.out.k = "ok" =>
               /\ \A i \in 1..Len(res.out.val.v) : res.out.val.v[i] # None
               /\ ItemsOf(res.args, res.out) =
                      Contributions(doc, InOrder(LeavesInSentences(doc)),
                                    res.args.unit, res.args.pos_tag,
                                    res.args.sem_tag, res.args.strip_space)

====
